---- MODULE Spec2Model ----
(***************************************************************************)
(* Model of the SmartRouter (src/router): the LRU ToolCache, the           *)
(* HealthTracker, the ConversationHistory, the UsageMetrics session set    *)
(* and the turn protocol of SmartRouter.handle_turn / handle_turn_stream.  *)
(*                                                                         *)
(* The agent executor and the embedding provider are external: what they  *)
(* return (search hits, mcp_results, produced messages, a raised error)   *)
(* is drawn from small sets.  A turn is split at its suspension points    *)
(* (the awaits of agent.run / run_stream and the yields of the streaming  *)
(* generator); discover_tools is a synchronous callback that runs while   *)
(* an executor run is in flight.                                          *)
(***************************************************************************)
EXTENDS Integers, Sequences, FiniteSets, TLC

\* ------------------------------------------------------------------ bounds
\* capacity of the ToolCache (ToolCache(max_size=...))
CacheMax == 2
\* cooldown of the HealthTracker, in clock ticks
Cooldown == 1
\* max_turns of the ConversationHistory
MaxHistoryTurns == 1
\* the monotonic clock runs from 0 to MaxTime
MaxTime == 2
\* number of turns handled by the router in one behaviour
MaxTurns == 2
\* number of discover_tools calls the executor makes in one run
MaxDiscover == 1
\* number of hits one search returns
MaxHits == 2
\* number of entries of RunResult.mcp_results
MaxMcp == 2
\* number of chunks a streaming run yields
MaxChunks == 1
\* number of cache operations in a behaviour of SpecCache
MaxOps == 4
\* longest message list handed to ConversationHistory.update directly
MaxMsgs == 5
\* largest max_turns a history is constructed with when driven directly
MaxTrimTurns == 2
\* number of queries of a ToolRegistry.search call
MaxQueries == 2
\* number of search calls in a behaviour of SpecRegistry
MaxSearches == 1
\* number of lines of the usage log
MaxLines == 3
\* largest n given to get_top_tools directly
MaxTop == 3
\* RouterConfig.preload_count, scaled like CacheMax (more than the cache holds)
PreloadCount == 3

\* server identifiers (urls) known to the router
Servers == {"s1", "s2", "s3"}
\* identifiers used when the cache is driven directly
Ids == Servers \cup {"s4"}
\* usage rankings (get_top_tools) the router is initialized with; "s4" is a
\* server that was used once and is no longer in the registry
TopLists == {<<>>, <<"s1">>, <<"s2", "s1">>, <<"s1", "s4", "s2", "s3">>}
\* Python's None, as url / evicted value
None == "None"
\* the usage log does not exist
NoFile == [exists |-> FALSE, lines |-> <<>>]
\* absence of a key in HealthTracker._failures
NoRec == -1

VARIABLES
  cache,            \* ToolCache._cache: sequence of urls, oldest first
  failures,         \* HealthTracker._failures: url -> time of last failure, NoRec if absent
  now,              \* time.monotonic()
  history,          \* ConversationHistory._messages
  session,          \* UsageMetrics._session_tools
  pc,               \* position of the turn handler
  mode,             \* "plain" (handle_turn) or "stream" (handle_turn_stream)
  turn,             \* number of turns started
  newly_discovered, \* the turn's newly_discovered list
  messages,         \* local `messages` of the turn
  active_urls,      \* local `active_urls` of the turn
  result,           \* local `result` of the turn (RunResult of the last run that returned)
  collected,        \* local `collected` of the streaming re-run
  yielded,          \* chunks the caller of handle_turn_stream received in this turn
  runArgs,          \* (messages, mcp_servers) of each executor invocation of this turn
  pre,              \* snapshot of the router state taken when the turn was entered
  lastFail,         \* url -> time of the last mark_unhealthy (kept when the record is purged)
  postRan,          \* _post_run was executed in this turn
  finalMcp,         \* server invocations made by the final run of this turn
  discCalls,        \* discover_tools calls made in this turn
  discInRun,        \* discover_tools calls made in the current run
  discReturn,       \* what the last discover_tools call gave the executor
  hits,             \* local `results` of the last discover_tools call of the current run
  searchFailed,     \* the registry search of the last discover_tools call raised
  opLog,            \* elementary cache operations performed through the cache API
  lastOp,           \* the last cache operation: name, argument, cache before, value returned
  hOp,              \* the last health tracker operation: name, argument, records before,
                    \* value returned; and per url the record its last mark replaced
  histOp,           \* the last history operation: name, messages given to update,
                    \* and the max_turns the history was constructed with
  registry_cache,   \* ToolRegistry._cache: the registry entries whose embedding is cached
  searchOp,         \* the last ToolRegistry.search call: entries cached, similarities, hits;
                    \* and of the last registry operation: its name, the registry it was
                    \* constructed with, the batch sizes of its provider calls, the count
                    \* cache_embeddings returned
  logFile,          \* the usage log: NoFile, or its lines
  mOp               \* the last usage metrics operation: name, the one before, argument,
                    \* session set and log before, value returned

routerVars == <<failures, now, history, session, pc, mode, turn, newly_discovered,
                messages, active_urls, result, collected, yielded, runArgs, pre,
                lastFail, postRan, finalMcp, discCalls, discInRun, discReturn, hits,
                searchFailed>>
\* the locals and the observation variables of a turn
turnLocals == <<mode, turn, newly_discovered, messages, active_urls, result, collected,
                yielded, runArgs, pre, postRan, finalMcp, discCalls, discInRun,
                discReturn, hits, searchFailed>>
cacheApiVars == <<opLog, lastOp>>
healthApiVars == <<hOp>>
historyApiVars == <<histOp>>
registryVars == <<registry_cache, searchOp>>
metricsVars == <<logFile, mOp>>
apiVars == <<cacheApiVars, healthApiVars, historyApiVars, registryVars, metricsVars>>
vars == <<cache, routerVars, apiVars>>

\* ------------------------------------------------------------- sequences
Range(s) == {s[i] : i \in 1..Len(s)}
Contains(s, x) == \E i \in 1..Len(s) : s[i] = x
NoDup(s) == \A i, j \in 1..Len(s) : s[i] = s[j] => i = j
IndexOf(s, x) == CHOOSE i \in 1..Len(s) : s[i] = x
Without(s, x) == SelectSeq(s, LAMBDA y : y # x)
\* all sequences over S of length at most n
SeqsUpTo(S, n) == UNION {[1..k -> S] : k \in 0..n}
\* the duplicate-free ones
DistinctSeqs(S, n) == {s \in SeqsUpTo(S, n) : NoDup(s)}

\* ------------------------------------------------------------- ToolCache
\* OrderedDict.move_to_end(url)
move_to_end(c, url) == Append(Without(c, url), url)

\* ToolCache.add with the capacity test `>` in place of `>=`
add_off_by_one(c, url) ==
  IF Contains(c, url)
    THEN [cache |-> move_to_end(c, url), evicted |-> None]
    ELSE IF Len(c) > CacheMax
      THEN [cache |-> Append(Tail(c), url), evicted |-> Head(c)]
      ELSE [cache |-> Append(c, url), evicted |-> None]

\* ToolCache.add evicting the newest entry (popitem(last=True))
add_evict_newest(c, url) ==
  IF Contains(c, url)
    THEN [cache |-> move_to_end(c, url), evicted |-> None]
    ELSE IF Len(c) >= CacheMax
      THEN [cache |-> Append(SubSeq(c, 1, Len(c) - 1), url), evicted |-> c[Len(c)]]
      ELSE [cache |-> Append(c, url), evicted |-> None]

\* ToolCache.add that keeps a full cache as it is instead of evicting
add_refuse_when_full(c, url) ==
  IF Contains(c, url)
    THEN [cache |-> move_to_end(c, url), evicted |-> None]
    ELSE IF Len(c) >= CacheMax
      THEN [cache |-> c, evicted |-> None]
      ELSE [cache |-> Append(c, url), evicted |-> None]

\* ToolCache.add that looks at the capacity before it looks for the url
add_capacity_first(c, url) ==
  IF Len(c) >= CacheMax
    THEN [cache |-> Append(Without(Tail(c), url), url), evicted |-> Head(c)]
    ELSE IF Contains(c, url)
      THEN [cache |-> move_to_end(c, url), evicted |-> None]
      ELSE [cache |-> Append(c, url), evicted |-> None]

\* ToolCache.add: the cache after the call and the value returned.
\* popitem(last=False) on an empty dict raises; with max_size >= 1 the dict
\* is non-empty whenever len >= max_size.
add(c, url) ==
  IF Contains(c, url)
    THEN [cache |-> move_to_end(c, url), evicted |-> None]
    ELSE IF Len(c) >= CacheMax
      THEN [cache |-> Append(Tail(c), url), evicted |-> Head(c)]
      ELSE [cache |-> Append(c, url), evicted |-> None]

\* ToolCache.touch without the membership test
touch_unguarded(c, url) == move_to_end(c, url)

\* ToolCache.touch
touch(c, url) == IF Contains(c, url) THEN move_to_end(c, url) ELSE c

\* ToolCache.evict
evict(c, url) == Without(c, url)

\* ToolCache.get_urls
get_urls(c) == c

\* ToolCache.preload
RECURSIVE preload(_, _)
preload(c, urls) ==
  IF urls = <<>> THEN c ELSE preload(add(c, Head(urls)).cache, Tail(urls))

\* ---------------------------------------------------------- HealthTracker
\* HealthTracker.mark_unhealthy that keeps the time of the first failure
mark_unhealthy_keep_first(f, t, url) == IF f[url] = NoRec THEN [f EXCEPT ![url] = t] ELSE f

\* HealthTracker.mark_unhealthy at time t
mark_unhealthy(f, t, url) == [f EXCEPT ![url] = t]

\* HealthTracker.is_healthy that never reports a failure
is_healthy_always(f, t, url) ==
  [ok |-> TRUE, failures |-> [f EXCEPT ![url] = NoRec]]

\* HealthTracker.is_healthy that lets a record expire only after the cooldown
\* is exceeded (`>` in place of `>=`)
is_healthy_strict(f, t, url) ==
  IF f[url] = NoRec
    THEN [ok |-> TRUE, failures |-> f]
    ELSE IF t - f[url] > Cooldown
      THEN [ok |-> TRUE, failures |-> [f EXCEPT ![url] = NoRec]]
      ELSE [ok |-> FALSE, failures |-> f]

\* HealthTracker.is_healthy that also drops every other expired record
is_healthy_sweep(f, t, url) ==
  LET swept == [u \in DOMAIN f |-> IF f[u] # NoRec /\ t - f[u] >= Cooldown THEN NoRec ELSE f[u]]
  IN  [ok |-> swept[url] = NoRec, failures |-> swept]

\* HealthTracker.is_healthy at time t: the answer and the records after the call
is_healthy(f, t, url) ==
  IF f[url] = NoRec
    THEN [ok |-> TRUE, failures |-> f]
    ELSE IF t - f[url] >= Cooldown
      THEN [ok |-> TRUE, failures |-> [f EXCEPT ![url] = NoRec]]
      ELSE [ok |-> FALSE, failures |-> f]

\* HealthTracker.filter_healthy at time t: the list kept and the records after
RECURSIVE filter_healthy(_, _, _)
filter_healthy(f, t, urls) ==
  IF urls = <<>>
    THEN [urls |-> <<>>, failures |-> f]
    ELSE LET h == is_healthy(f, t, Head(urls))
             r == filter_healthy(h.failures, t, Tail(urls))
         IN  [urls |-> IF h.ok THEN <<Head(urls)>> \o r.urls ELSE r.urls,
              failures |-> r.failures]

\* HealthTracker.clear
clear(f, url) == [f EXCEPT ![url] = NoRec]

\* ------------------------------------------------------------ ToolRegistry
\* config.registry: the registered servers, in registry order
Registry == <<"s1", "s2", "s3">>

\* similarity scores are counted in units of 0.00001
\* RouterConfig.similarity_threshold = 0.25
SimilarityThreshold == 25000
\* RouterConfig.relative_score_cutoff = 0.6, in tenths
RelativeScoreCutoff == 6
Tenths == 10

\* the cosine similarities a query can have with a cached entry: none (0),
\* 0.26 and 0.30004 (above the threshold), 0.50006
ScoreValues == {0, 26000, 30004, 50006}

\* round(score, 4): to the nearest multiple of 0.0001, a tie going to the even
\* fourth decimal
round4(score) ==
  LET q == score \div 10
      r == score % 10
  IN  IF r < 5 THEN 10 * q
      ELSE IF r > 5 THEN 10 * (q + 1)
      ELSE IF q % 2 = 0 THEN 10 * q ELSE 10 * (q + 1)

\* ToolRegistry.cache_embeddings: one cached entry per registry entry, in
\* registry order (the embedding vector of an entry is represented by the
\* entry itself: the similarities it yields are given with each query)
cache_embeddings(reg) == [i \in 1..Len(reg) |-> [url |-> reg[i]]]

\* search: the entries `scored` for one query, whose similarities are sim
scored(c, sim) == SelectSeq(c, LAMBDA tool : sim[tool.url] >= SimilarityThreshold)

\* search: best = max(s for _, s in scored)
best(sc, sim) ==
  CHOOSE b \in {sim[sc[i].url] : i \in 1..Len(sc)} :
    \A i \in 1..Len(sc) : sim[sc[i].url] <= b

\* search without the relative cutoff
above_cutoff_always(score, b) == TRUE

\* search: score >= cutoff, with cutoff = best * relative_score_cutoff
above_cutoff(score, b) == score * Tenths >= b * RelativeScoreCutoff

\* search: is url a key of matched
is_matched(matched, url) == \E i \in 1..Len(matched) : matched[i].url = url

\* search whose second loop lets a later, higher score replace the hit kept
RECURSIVE match_scored_best_wins(_, _, _, _)
match_scored_best_wins(sc, sim, b, matched) ==
  IF sc = <<>> THEN matched
  ELSE LET tool == Head(sc)
           score == sim[tool.url]
           hit == [url |-> tool.url, score |-> round4(score)]
       IN  match_scored_best_wins(Tail(sc), sim, b,
             IF ~above_cutoff(score, b) THEN matched
             ELSE IF ~is_matched(matched, tool.url) THEN Append(matched, hit)
             ELSE [i \in 1..Len(matched) |->
                     IF matched[i].url = tool.url /\ matched[i].score < hit.score
                       THEN hit ELSE matched[i]])

\* search: the second loop over `scored`, filling the dict `matched` (kept in
\* insertion order)
RECURSIVE match_scored(_, _, _, _)
match_scored(sc, sim, b, matched) ==
  IF sc = <<>> THEN matched
  ELSE LET tool == Head(sc)
           score == sim[tool.url]
       IN  match_scored(Tail(sc), sim, b,
             IF above_cutoff(score, b) /\ ~is_matched(matched, tool.url)
               THEN Append(matched, [url |-> tool.url, score |-> round4(score)])
               ELSE matched)

\* search: the loop over the query vectors; sims[q] gives the cosine
\* similarity of query q with every registry entry
RECURSIVE search_loop(_, _, _)
search_loop(c, sims, matched) ==
  IF sims = <<>> THEN matched
  ELSE LET sc == scored(c, Head(sims))
       IN  search_loop(c, Tail(sims),
             IF sc = <<>> THEN matched
             ELSE match_scored(sc, Head(sims), best(sc, Head(sims)), matched))

\* ToolRegistry.search: list(matched.values())
search(c, sims) ==
  IF sims = <<>> \/ c = <<>> THEN <<>> ELSE search_loop(c, sims, <<>>)

\* the calls cache_embeddings makes to the embedding provider, each given
\* by the number of texts in its batch
cache_embeddings_embeds(reg) == IF reg = <<>> THEN <<>> ELSE <<Len(reg)>>

\* ToolRegistry.search that embeds its queries one call at a time
search_embeds_each(c, sims) ==
  IF sims = <<>> \/ c = <<>> THEN <<>> ELSE [q \in 1..Len(sims) |-> 1]

\* the calls search makes to the embedding provider, each given by the
\* number of queries in its batch
search_embeds(c, sims) == IF sims = <<>> \/ c = <<>> THEN <<>> ELSE <<Len(sims)>>

\* ---------------------------------------------------- ConversationHistory
\* a message: its role, the turn it belongs to and the executor run that
\* produced it (0 for the user's own message)
Msg(role, t, r) == [role |-> role, turn |-> t, run |-> r]

\* ConversationHistory.turn_count
turn_count(m) == Cardinality({i \in 1..Len(m) : m[i].role = "user"})

\* the system messages at the start of m
RECURSIVE system_prefix(_)
system_prefix(m) ==
  IF m = <<>> \/ Head(m).role # "system" THEN <<>>
  ELSE <<Head(m)>> \o system_prefix(Tail(m))

\* ConversationHistory._trim that drops the leading system messages with the
\* oldest turns
_trim_no_prefix(m) ==
  IF turn_count(m) <= MaxHistoryTurns THEN m
  ELSE LET excess == turn_count(m) - MaxHistoryTurns
           user_indices == SelectSeq([i \in 1..Len(m) |-> i], LAMBDA i : m[i].role = "user")
       IN  IF Len(user_indices) <= excess THEN m
           ELSE SubSeq(m, user_indices[excess + 1], Len(m))

\* ConversationHistory._trim that keeps a fixed number of trailing messages
\* (two per turn) instead of cutting at a user message
_trim_by_messages(m) ==
  IF turn_count(m) <= MaxHistoryTurns THEN m
  ELSE LET keep == 2 * MaxHistoryTurns
           cut_at == IF Len(m) > keep THEN Len(m) - keep + 1 ELSE 1
       IN  system_prefix(m) \o SubSeq(m, cut_at, Len(m))

\* ConversationHistory._trim
_trim(m) ==
  IF turn_count(m) <= MaxHistoryTurns THEN m
  ELSE LET excess == turn_count(m) - MaxHistoryTurns
           user_indices == SelectSeq([i \in 1..Len(m) |-> i], LAMBDA i : m[i].role = "user")
       IN  IF Len(user_indices) <= excess THEN m
           ELSE system_prefix(m) \o SubSeq(m, user_indices[excess + 1], Len(m))

\* ConversationHistory._trim without the safety guard: when there are not
\* more user messages than excess, every turn is cut
trim_with_unguarded(m, max_turns) ==
  IF turn_count(m) <= max_turns THEN m
  ELSE LET excess == turn_count(m) - max_turns
           user_indices == SelectSeq([i \in 1..Len(m) |-> i], LAMBDA i : m[i].role = "user")
       IN  IF Len(user_indices) <= excess THEN system_prefix(m)
           ELSE system_prefix(m) \o SubSeq(m, user_indices[excess + 1], Len(m))

\* ConversationHistory._trim of a history constructed with max_turns
trim_with(m, max_turns) ==
  IF turn_count(m) <= max_turns THEN m
  ELSE LET excess == turn_count(m) - max_turns
           user_indices == SelectSeq([i \in 1..Len(m) |-> i], LAMBDA i : m[i].role = "user")
       IN  IF Len(user_indices) <= excess THEN m
           ELSE system_prefix(m) \o SubSeq(m, user_indices[excess + 1], Len(m))

\* ConversationHistory.update
update(m) == _trim(m)

\* ConversationHistory.append_user
append_user(m, t) == Append(m, Msg("user", t, 0))


\* ---------------------------------------------------------- UsageMetrics
\* UsageMetrics.record_tool_use
record_tool_use(s, url) == s \cup {url}

\* the order of Python's string comparison on the identifiers
IdOrder == <<"s1", "s2", "s3", "s4">>

\* sorted(set of identifiers)
RECURSIVE sorted(_)
sorted(S) ==
  IF S = {} THEN <<>>
  ELSE LET m == CHOOSE x \in S : \A y \in S : IndexOf(IdOrder, x) <= IndexOf(IdOrder, y)
       IN  <<m>> \o sorted(S \ {m})

\* a line of the usage log.  kind "entry" is a JSON object with a tools_used
\* list, as flush_session writes it; the other kinds are what else a line
\* can hold: "blank" (empty after strip), "not_json" (json.loads raises
\* JSONDecodeError), "no_tools_used" (a JSON object without that key),
\* "not_object" (a JSON array, string, number, true or null) and
\* "null_tools_used" (a JSON object whose tools_used is null)
Line(kind, t, tools) == [kind |-> kind, timestamp |-> t, tools_used |-> tools]
OtherKinds == {"blank", "not_json", "no_tools_used", "not_object", "null_tools_used"}
\* lines that do not come from this process's flush_session: the other
\* kinds, and an entry naming a server that is no longer registered
ForeignLines == {Line(k, 0, <<>>) : k \in OtherKinds} \cup {Line("entry", 0, <<"s4">>)}
\* lines earlier sessions flushed
FlushedLines == {Line("entry", 0, sorted(S)) : S \in (SUBSET Servers) \ {{}}}

\* UsageMetrics.flush_session that leaves the session set as it is
flush_session_keep(s, log, t) ==
  IF s = {} THEN [session |-> s, log |-> log]
  ELSE [session |-> s,
        log |-> [exists |-> TRUE, lines |-> Append(log.lines, Line("entry", t, sorted(s)))]]

\* UsageMetrics.flush_session at time t: the session set and the log after
flush_session(s, log, t) ==
  IF s = {} THEN [session |-> s, log |-> log]
  ELSE [session |-> {},
        log |-> [exists |-> TRUE, lines |-> Append(log.lines, Line("entry", t, sorted(s)))]]

\* counter[tool] += 1 on a Counter kept as the sequence of its items in
\* insertion order
count_tool(counter, tool) ==
  IF \E i \in 1..Len(counter) : counter[i].tool = tool
    THEN [i \in 1..Len(counter) |->
            IF counter[i].tool = tool
              THEN [tool |-> tool, count |-> counter[i].count + 1] ELSE counter[i]]
    ELSE Append(counter, [tool |-> tool, count |-> 1])

\* for tool in entry.get("tools_used", []): counter[tool] += 1
RECURSIVE count_tools(_, _)
count_tools(counter, tools) ==
  IF tools = <<>> THEN counter
  ELSE count_tools(count_tool(counter, Head(tools)), Tail(tools))

\* get_top_tools: the loop over the lines.  Only json.JSONDecodeError is
\* caught: entry.get on a value that is no dict raises AttributeError and
\* iterating a null tools_used raises TypeError, and both leave the function
RECURSIVE scan_lines(_, _)
scan_lines(lines, counter) ==
  IF lines = <<>> THEN [raised |-> FALSE, counter |-> counter]
  ELSE LET line == Head(lines)
       IN  IF line.kind \in {"blank", "not_json", "no_tools_used"}
             THEN scan_lines(Tail(lines), counter)
           ELSE IF line.kind \in {"not_object", "null_tools_used"}
             THEN [raised |-> TRUE, counter |-> counter]
           ELSE scan_lines(Tail(lines), count_tools(counter, line.tools_used))

\* Counter.most_common(n): the n items of highest count, items of equal
\* count in insertion order
RECURSIVE most_common(_, _)
most_common(counter, n) ==
  IF n <= 0 \/ counter = <<>> THEN <<>>
  ELSE LET i == CHOOSE i \in 1..Len(counter) :
                  /\ \A j \in 1..Len(counter) : counter[j].count <= counter[i].count
                  /\ \A j \in 1..(i - 1) : counter[j].count < counter[i].count
           rest == [j \in 1..(Len(counter) - 1) |-> IF j < i THEN counter[j] ELSE counter[j + 1]]
       IN  <<counter[i].tool>> \o most_common(rest, n - 1)

\* UsageMetrics.get_top_tools(n): whether it raised, and the list returned
get_top_tools(log, n) ==
  IF ~log.exists THEN [raised |-> FALSE, value |-> <<>>]
  ELSE LET c == scan_lines(log.lines, <<>>)
       IN  IF c.raised THEN [raised |-> TRUE, value |-> <<>>]
           ELSE [raised |-> FALSE, value |-> most_common(c.counter, n)]

\* ------------------------------------------------------------ RunResult
\* the mcp_results a run can report when it was offered the servers `offered`:
\* one MCPToolResult (the server invoked and its is_error flag) per invocation
McpResults(offered) ==
  SeqsUpTo([server_url : Range(offered), is_error : BOOLEAN], MaxMcp)
HasError(mcp, url) == \E i \in 1..Len(mcp) : mcp[i].server_url = url /\ mcp[i].is_error
HasSuccess(mcp, url) == \E i \in 1..Len(mcp) : mcp[i].server_url = url /\ ~mcp[i].is_error
Invoked(mcp, url) == \E i \in 1..Len(mcp) : mcp[i].server_url = url

\* the RunResult before any run returned
NoResult == [messages |-> <<>>, mcp_results |-> <<>>]

\* RunResult.messages (result.to_input_list()): the canonical transcript of
\* run r of turn t, i.e. the messages the run was given followed by what it
\* produced: a tool-call message when the run called a tool, then the
\* assistant's answer
to_input_list(msgs, t, r, calledTool) ==
  msgs \o (IF calledTool THEN <<Msg("tool", t, r)>> ELSE <<>>) \o <<Msg("assistant", t, r)>>

\* the RunResult of run r of turn t
RunResult(msgs, t, r, mcp, nDisc) ==
  [messages |-> to_input_list(msgs, t, r, mcp # <<>> \/ nDisc > 0), mcp_results |-> mcp]

\* ------------------------------------------------------------ SmartRouter
\* the loop of discover_tools without the health check
RECURSIVE discover_loop_unchecked(_, _, _, _, _)
discover_loop_unchecked(results, f, c, nd, t) ==
  IF results = <<>>
    THEN [failures |-> f, cache |-> c, newly_discovered |-> nd]
    ELSE LET url == Head(results)
         IN  IF ~Contains(nd, url)
               THEN discover_loop_unchecked(Tail(results), f, add(c, url).cache,
                                            Append(nd, url), t)
               ELSE discover_loop_unchecked(Tail(results), f, c, nd, t)

\* the loop of discover_tools over the search results
RECURSIVE discover_loop(_, _, _, _, _)
discover_loop(results, f, c, nd, t) ==
  IF results = <<>>
    THEN [failures |-> f, cache |-> c, newly_discovered |-> nd]
    ELSE LET url == Head(results)
             h == is_healthy(f, t, url)
         IN  IF h.ok /\ ~Contains(nd, url)
               THEN discover_loop(Tail(results), h.failures, add(c, url).cache, Append(nd, url), t)
               ELSE discover_loop(Tail(results), h.failures, c, nd, t)

\* _post_run that adds a successfully used server instead of touching it
RECURSIVE post_run_readd(_, _, _, _, _)
post_run_readd(mcp, c, f, s, t) ==
  IF mcp = <<>>
    THEN [cache |-> c, failures |-> f, session |-> s]
    ELSE LET mr == Head(mcp)
         IN  IF mr.is_error
               THEN post_run_readd(Tail(mcp), evict(c, mr.server_url),
                                   mark_unhealthy(f, t, mr.server_url), s, t)
               ELSE post_run_readd(Tail(mcp), add(c, mr.server_url).cache, f,
                                   record_tool_use(s, mr.server_url), t)

\* SmartRouter._post_run that marks a failed server unhealthy and leaves it
\* in the cache
RECURSIVE post_run_no_evict(_, _, _, _, _)
post_run_no_evict(mcp, c, f, s, t) ==
  IF mcp = <<>>
    THEN [cache |-> c, failures |-> f, session |-> s]
    ELSE LET mr == Head(mcp)
         IN  IF mr.is_error
               THEN post_run_no_evict(Tail(mcp), c, mark_unhealthy(f, t, mr.server_url), s, t)
               ELSE post_run_no_evict(Tail(mcp), touch(c, mr.server_url), f,
                                      record_tool_use(s, mr.server_url), t)

\* the loop of _post_run over result.mcp_results, at time t
RECURSIVE _post_run(_, _, _, _, _)
_post_run(mcp, c, f, s, t) ==
  IF mcp = <<>>
    THEN [cache |-> c, failures |-> f, session |-> s]
    ELSE LET mr == Head(mcp)
         IN  IF mr.is_error
               THEN _post_run(Tail(mcp), evict(c, mr.server_url),
                              mark_unhealthy(f, t, mr.server_url), s, t)
               ELSE _post_run(Tail(mcp), touch(c, mr.server_url), f,
                              record_tool_use(s, mr.server_url), t)

\* the time of the last mark_unhealthy of each server after _post_run at time t
MarkedAt(lf, mcp, t) == [u \in Servers |-> IF HasError(mcp, u) THEN t ELSE lf[u]]

Snapshot == [history |-> history, cache |-> cache, failures |-> failures, session |-> session]

Init ==
  /\ cache = <<>>
  /\ failures = [u \in Servers |-> NoRec]
  /\ now = 0
  /\ history = <<>>
  /\ session = {}
  /\ pc = "new"
  /\ mode = "plain"
  /\ turn = 0
  /\ newly_discovered = <<>>
  /\ messages = <<>>
  /\ active_urls = <<>>
  /\ result = NoResult
  /\ collected = <<>>
  /\ yielded = <<>>
  /\ runArgs = <<>>
  /\ pre = [history |-> <<>>, cache |-> <<>>, failures |-> [u \in Servers |-> NoRec], session |-> {}]
  /\ lastFail = [u \in Servers |-> NoRec]
  /\ postRan = FALSE
  /\ finalMcp = <<>>
  /\ discCalls = 0
  /\ discInRun = 0
  /\ discReturn = "none"
  /\ hits = <<>>
  /\ searchFailed = FALSE
  /\ opLog = <<>>
  /\ lastOp = [name |-> "none", arg |-> None, pre |-> <<>>, ret |-> None]
  /\ hOp = [name |-> "none", arg |-> None, pre |-> [u \in Servers |-> NoRec], at |-> 0,
            ret |-> None, over |-> [u \in Servers |-> NoRec]]
  /\ histOp = [name |-> "none", messages |-> <<>>, max_turns |-> MaxHistoryTurns]
  /\ registry_cache = <<>>
  /\ searchOp = [calls |-> 0, cache |-> <<>>, sims |-> <<>>, hits |-> <<>>,
                 op |-> "none", registry |-> Registry, embeds |-> <<>>, count |-> 0]
  /\ logFile = NoFile
  /\ mOp = [name |-> "none", prev |-> "none", n |-> 0, session |-> {}, log |-> NoFile,
            ret |-> [raised |-> FALSE, value |-> <<>>]]

\* SmartRouter.initialize: cache the registry embeddings, then preload the
\* cache from the usage ranking `top`, keeping only the urls still in the
\* registry
Initialize(top) ==
  /\ pc = "new"
  /\ registry_cache' = cache_embeddings(Registry)
  /\ LET to_preload == SelectSeq(top, LAMBDA u : u \in Servers)
     IN  cache' = preload(cache, to_preload)
  /\ pc' = "idle"
  /\ UNCHANGED <<failures, now, history, session, mode, turn, newly_discovered,
                 messages, active_urls, result, collected, yielded, runArgs, pre,
                 lastFail, postRan, finalMcp, discCalls, discInRun, discReturn, hits, searchFailed>>
  /\ UNCHANGED <<cacheApiVars, healthApiVars, historyApiVars, searchOp, metricsVars>>

\* the clock advances.  The router reads the clock only to stamp a failure
\* and to compare it with a failure record, so its value is followed only
\* while some record exists.
Tick ==
  /\ now < MaxTime
  /\ \E u \in Servers : failures[u] # NoRec
  /\ now' = now + 1
  /\ UNCHANGED <<cache, failures, history, session, pc, mode, turn, newly_discovered,
                 messages, active_urls, result, collected, yielded, runArgs, pre,
                 lastFail, postRan, finalMcp, discCalls, discInRun, discReturn, hits, searchFailed>>
  /\ UNCHANGED apiVars

\* handle_turn whose discovery list outlives the turn
StartTurn_keep(m) ==
  /\ pc \in {"idle", "done", "aborted", "abandoned"}
  /\ turn < MaxTurns
  /\ LET t == turn + 1
         msgs == append_user(history, t)
         fh == filter_healthy(failures, now, get_urls(cache))
     IN  /\ turn' = t
         /\ history' = msgs
         /\ messages' = msgs
         /\ active_urls' = fh.urls
         /\ failures' = fh.failures
         /\ runArgs' = <<[messages |-> msgs, mcp_servers |-> fh.urls]>>
  /\ pre' = Snapshot
  /\ mode' = m
  /\ pc' = "primary"
  /\ result' = NoResult
  /\ collected' = <<>>
  /\ yielded' = <<>>
  /\ postRan' = FALSE
  /\ finalMcp' = <<>>
  /\ discCalls' = 0
  /\ discInRun' = 0
  /\ discReturn' = "none"
  /\ hits' = <<>>
  /\ searchFailed' = FALSE
  /\ UNCHANGED <<cache, now, session, lastFail, newly_discovered>>
  /\ UNCHANGED apiVars

\* START of handle_turn (m = "plain") or handle_turn_stream (m = "stream"),
\* up to the first await of agent.run
StartTurn(m) ==
  /\ pc \in {"idle", "done", "aborted", "abandoned"}
  /\ turn < MaxTurns
  /\ LET t == turn + 1
         msgs == append_user(history, t)
         fh == filter_healthy(failures, now, get_urls(cache))
     IN  /\ turn' = t
         /\ history' = msgs
         /\ messages' = msgs
         /\ active_urls' = fh.urls
         /\ failures' = fh.failures
         /\ runArgs' = <<[messages |-> msgs, mcp_servers |-> fh.urls]>>
  /\ pre' = Snapshot
  /\ mode' = m
  /\ pc' = "primary"
  /\ newly_discovered' = <<>>
  /\ result' = NoResult
  /\ collected' = <<>>
  /\ yielded' = <<>>
  /\ postRan' = FALSE
  /\ finalMcp' = <<>>
  /\ discCalls' = 0
  /\ discInRun' = 0
  /\ discReturn' = "none"
  /\ hits' = <<>>
  /\ searchFailed' = FALSE
  /\ UNCHANGED <<cache, now, session, lastFail>>
  /\ UNCHANGED apiVars

\* the executor calls discover_tools and the registry search returns `results`
Discover(results) ==
  /\ pc \in {"primary", "expanded"}
  /\ discInRun < MaxDiscover
  /\ LET d == discover_loop(results, failures, cache, newly_discovered, now)
     IN  /\ failures' = d.failures
         /\ cache' = d.cache
         /\ newly_discovered' = d.newly_discovered
  /\ discReturn' = IF results # <<>> THEN "found" ELSE "no_match"
  /\ hits' = results
  /\ searchFailed' = FALSE
  /\ discCalls' = discCalls + 1
  /\ discInRun' = discInRun + 1
  /\ UNCHANGED <<now, history, session, pc, mode, turn, messages, active_urls, result,
                 collected, yielded, runArgs, pre, lastFail, postRan, finalMcp>>
  /\ UNCHANGED apiVars

\* the executor calls discover_tools and the registry search (the embedding
\* call) raises: nothing catches it in discover_tools, so the exception reaches
\* the executor, which either reports it to the model as a tool error and
\* goes on, or lets it end the run
DiscoverRaise(propagates) ==
  /\ pc \in {"primary", "expanded"}
  /\ discInRun < MaxDiscover
  /\ discReturn' = "raised"
  /\ hits' = <<>>
  /\ searchFailed' = TRUE
  /\ discCalls' = discCalls + 1
  /\ discInRun' = discInRun + 1
  /\ pc' = IF propagates THEN "aborted" ELSE pc
  /\ UNCHANGED <<cache, failures, now, history, session, mode, turn, newly_discovered,
                 messages, active_urls, result, collected, yielded, runArgs, pre,
                 lastFail, postRan, finalMcp>>
  /\ UNCHANGED apiVars


\* PRIMARY_RUN returned and the discovery set is non-empty, with the active
\* list of the first run kept instead of recomputed
PrimaryReturnDiscovered_stale ==
  /\ pc = "primary"
  /\ newly_discovered # <<>>
  /\ result' = RunResult(messages, turn, 1, <<>>, discInRun)
  /\ runArgs' = Append(runArgs, [messages |-> messages, mcp_servers |-> active_urls])
  /\ pc' = "expanded"
  /\ discInRun' = 0
  /\ hits' = <<>>
  /\ UNCHANGED <<cache, failures, active_urls, now, history, session, mode, turn,
                 newly_discovered, messages, collected, yielded, pre, lastFail, postRan, finalMcp,
                 discCalls, discReturn, searchFailed>>
  /\ UNCHANGED apiVars

\* PRIMARY_RUN returned and the discovery set is non-empty: the active list is
\* recomputed and the executor is invoked again (agent.run in handle_turn,
\* agent.run_stream in handle_turn_stream) with the same `messages`.  Of the
\* probe's RunResult only `messages` is read after this point (by the
\* streaming variant), so its mcp_results are not kept.
PrimaryReturnDiscovered ==
  /\ pc = "primary"
  /\ newly_discovered # <<>>
  /\ result' = RunResult(messages, turn, 1, <<>>, discInRun)
  /\ LET fh == filter_healthy(failures, now, get_urls(cache))
     IN  /\ active_urls' = fh.urls
         /\ failures' = fh.failures
         /\ runArgs' = Append(runArgs, [messages |-> messages, mcp_servers |-> fh.urls])
  /\ pc' = "expanded"
  /\ discInRun' = 0
  /\ hits' = <<>>
  /\ UNCHANGED <<cache, now, history, session, mode, turn, newly_discovered, messages,
                 collected, yielded, pre, lastFail, postRan, finalMcp, discCalls, discReturn,
                 searchFailed>>
  /\ UNCHANGED apiVars

\* the state changes of _post_run(res, active_urls)
PostRun(res) ==
  /\ LET p == _post_run(res.mcp_results, cache, failures, session, now)
     IN  /\ cache' = p.cache
         /\ failures' = p.failures
         /\ session' = p.session
  /\ lastFail' = MarkedAt(lastFail, res.mcp_results, now)
  /\ history' = update(res.messages)
  /\ postRan' = TRUE
  /\ finalMcp' = res.mcp_results

\* handle_turn: PRIMARY_RUN returned with an empty discovery set; its result is
\* final, _post_run runs and the turn returns
PrimaryReturnFinal(mcp) ==
  /\ pc = "primary"
  /\ mode = "plain"
  /\ newly_discovered = <<>>
  /\ LET res == RunResult(messages, turn, 1, mcp, discInRun)
     IN  /\ result' = res
         /\ PostRun(res)
  /\ pc' = "done"
  /\ hits' = <<>>
  /\ UNCHANGED <<now, mode, turn, newly_discovered, messages, active_urls, collected,
                 yielded, runArgs, pre, discCalls, discInRun, discReturn, searchFailed>>
  /\ UNCHANGED apiVars

\* handle_turn_stream that starts the streaming run although the probe
\* discovered nothing
PrimaryReturnYield_streams(mcp) ==
  /\ pc = "primary"
  /\ mode = "stream"
  /\ newly_discovered = <<>>
  /\ result' = RunResult(messages, turn, 1, mcp, discInRun)
  /\ runArgs' = Append(runArgs, [messages |-> messages, mcp_servers |-> active_urls])
  /\ pc' = "expanded"
  /\ discInRun' = 0
  /\ hits' = <<>>
  /\ UNCHANGED <<cache, failures, now, history, session, mode, turn, newly_discovered,
                 messages, active_urls, collected, yielded, pre, lastFail, postRan, finalMcp,
                 discCalls, discReturn, searchFailed>>
  /\ UNCHANGED apiVars

\* handle_turn_stream: the probe returned with an empty discovery set; the
\* generator yields result.final_output and is suspended at the yield
PrimaryReturnYield(mcp) ==
  /\ pc = "primary"
  /\ mode = "stream"
  /\ newly_discovered = <<>>
  /\ result' = RunResult(messages, turn, 1, mcp, discInRun)
  /\ yielded' = Append(yielded, [turn |-> turn, run |-> 1])
  /\ pc' = "yield_final"
  /\ hits' = <<>>
  /\ UNCHANGED <<cache, failures, now, history, session, mode, turn, newly_discovered,
                 messages, active_urls, collected, runArgs, pre, lastFail, postRan, finalMcp,
                 discCalls, discInRun, discReturn, searchFailed>>
  /\ UNCHANGED apiVars

\* handle_turn_stream: the caller resumes the generator after the single
\* chunk; _post_run runs and the generator ends
StreamResumeFinal ==
  /\ pc = "yield_final"
  /\ PostRun(result)
  /\ pc' = "done"
  /\ UNCHANGED <<now, mode, turn, newly_discovered, messages, active_urls, result,
                 collected, yielded, runArgs, pre, discCalls, discInRun, discReturn, hits,
                 searchFailed>>
  /\ UNCHANGED apiVars

\* a third executor invocation when the expanded run discovered again
ExpandedReturn_rerun(mcp) ==
  /\ pc = "expanded"
  /\ mode = "plain"
  /\ IF discInRun > 0
       THEN /\ result' = RunResult(messages, turn, 2, mcp, discInRun)
            /\ runArgs' = Append(runArgs, [messages |-> messages, mcp_servers |-> active_urls])
            /\ discInRun' = 0
            /\ UNCHANGED <<cache, failures, session, lastFail, history, postRan, finalMcp, pc>>
       ELSE /\ LET res == RunResult(messages, turn, 2, mcp, discInRun)
               IN  /\ result' = res
                   /\ PostRun(res)
            /\ pc' = "done"
            /\ UNCHANGED <<runArgs, discInRun>>
  /\ hits' = <<>>
  /\ UNCHANGED <<now, mode, turn, newly_discovered, messages, active_urls, collected,
                 yielded, pre, discCalls, discReturn, searchFailed>>
  /\ UNCHANGED apiVars

\* handle_turn: EXPANDED_RUN returned; its result is final, _post_run runs and
\* the turn returns
ExpandedReturn(mcp) ==
  /\ pc = "expanded"
  /\ mode = "plain"
  /\ LET res == RunResult(messages, turn, 2, mcp, discInRun)
     IN  /\ result' = res
         /\ PostRun(res)
  /\ pc' = "done"
  /\ hits' = <<>>
  /\ UNCHANGED <<now, mode, turn, newly_discovered, messages, active_urls, collected,
                 yielded, runArgs, pre, discCalls, discInRun, discReturn, searchFailed>>
  /\ UNCHANGED apiVars

\* handle_turn_stream: the streaming re-run yields a chunk, which is collected
\* and passed on to the caller, who asks for the next one
StreamChunk ==
  /\ pc = "expanded"
  /\ mode = "stream"
  /\ Len(collected) < MaxChunks
  /\ collected' = Append(collected, [turn |-> turn, run |-> 2])
  /\ yielded' = Append(yielded, [turn |-> turn, run |-> 2])
  /\ UNCHANGED <<cache, failures, now, history, session, pc, mode, turn, newly_discovered,
                 messages, active_urls, result, runArgs, pre, lastFail, postRan, finalMcp,
                 discCalls, discInRun, discReturn, hits, searchFailed>>
  /\ UNCHANGED apiVars

\* handle_turn_stream: the streaming re-run ends, after invoking the servers
\* of `mcp` (run_stream yields text chunks only, so these invocations are not
\* reported to the router); the history is updated with result.messages
\* (`result` is still the probe's RunResult) followed by an assistant message
\* holding the collected output.  _post_run is not called.
StreamEnd(mcp) ==
  /\ pc = "expanded"
  /\ mode = "stream"
  /\ history' = update(Append(result.messages, Msg("assistant", turn, 2)))
  /\ finalMcp' = mcp
  /\ pc' = "done"
  /\ hits' = <<>>
  /\ UNCHANGED <<cache, failures, now, session, mode, turn, newly_discovered, messages,
                 active_urls, result, collected, yielded, runArgs, pre, lastFail, postRan,
                 discCalls, discInRun, discReturn, searchFailed>>
  /\ UNCHANGED apiVars

\* handle_turn_stream: the caller stops consuming at a yield and closes the
\* generator; nothing after the yield runs
StreamAbandon ==
  /\ \/ pc = "yield_final"
     \/ pc = "expanded" /\ mode = "stream" /\ collected # <<>>
  /\ pc' = "abandoned"
  /\ hits' = <<>>
  /\ UNCHANGED <<cache, failures, now, history, session, mode, turn, newly_discovered,
                 messages, active_urls, result, collected, yielded, runArgs, pre,
                 lastFail, postRan, finalMcp, discCalls, discInRun, discReturn, searchFailed>>
  /\ UNCHANGED apiVars

\* a failed run after which the usage of the servers offered is still recorded
RunFail_recording ==
  /\ pc \in {"primary", "expanded"}
  /\ pc' = "aborted"
  /\ session' = session \cup Range(active_urls)
  /\ hits' = <<>>
  /\ UNCHANGED <<cache, failures, now, history, mode, turn, newly_discovered,
                 messages, active_urls, result, collected, yielded, runArgs, pre,
                 lastFail, postRan, finalMcp, discCalls, discInRun, discReturn, searchFailed>>
  /\ UNCHANGED apiVars

\* agent.run / agent.run_stream raises: the exception leaves handle_turn /
\* handle_turn_stream, nothing after the await runs
RunFail ==
  /\ pc \in {"primary", "expanded"}
  /\ pc' = "aborted"
  /\ hits' = <<>>
  /\ UNCHANGED <<cache, failures, now, history, session, mode, turn, newly_discovered,
                 messages, active_urls, result, collected, yielded, runArgs, pre,
                 lastFail, postRan, finalMcp, discCalls, discInRun, discReturn, searchFailed>>
  /\ UNCHANGED apiVars

Next ==
  \/ \E top \in TopLists : Initialize(top)
  \/ Tick
  \/ \E m \in {"plain", "stream"} : StartTurn(m)
  \/ \E results \in DistinctSeqs(Servers, MaxHits) : Discover(results)
  \/ \E propagates \in BOOLEAN : DiscoverRaise(propagates)
  \/ PrimaryReturnDiscovered
  \/ \E mcp \in McpResults(active_urls) : PrimaryReturnFinal(mcp)
  \/ \E mcp \in McpResults(active_urls) : PrimaryReturnYield(mcp)
  \/ StreamResumeFinal
  \/ \E mcp \in McpResults(active_urls) : ExpandedReturn(mcp)
  \/ StreamChunk
  \/ \E mcp \in McpResults(active_urls) : StreamEnd(mcp)
  \/ StreamAbandon
  \/ RunFail

Spec == Init /\ [][Next]_vars

\* ------------------------------------------------ the cache driven directly
\* cache.add(url)
CacheAdd(url) ==
  /\ Len(opLog) < MaxOps
  /\ LET a == add(cache, url)
     IN  /\ cache' = a.cache
         /\ lastOp' = [name |-> "add", arg |-> url, pre |-> cache, ret |-> a.evicted]
  /\ opLog' = Append(opLog, [name |-> "add", arg |-> url])
  /\ UNCHANGED <<routerVars, healthApiVars, historyApiVars, registryVars, metricsVars>>

\* cache.touch(url)
CacheTouch(url) ==
  /\ Len(opLog) < MaxOps
  /\ cache' = touch(cache, url)
  /\ lastOp' = [name |-> "touch", arg |-> url, pre |-> cache, ret |-> None]
  /\ opLog' = Append(opLog, [name |-> "touch", arg |-> url])
  /\ UNCHANGED <<routerVars, healthApiVars, historyApiVars, registryVars, metricsVars>>

\* cache.evict(url)
CacheEvict(url) ==
  /\ Len(opLog) < MaxOps
  /\ cache' = evict(cache, url)
  /\ lastOp' = [name |-> "evict", arg |-> url, pre |-> cache, ret |-> None]
  /\ opLog' = Append(opLog, [name |-> "evict", arg |-> url])
  /\ UNCHANGED <<routerVars, healthApiVars, historyApiVars, registryVars, metricsVars>>

\* cache.preload(urls): one add per url, in order
CachePreload(urls) ==
  /\ urls # <<>>
  /\ Len(opLog) + Len(urls) <= MaxOps
  /\ cache' = preload(cache, urls)
  /\ lastOp' = [name |-> "preload", arg |-> urls, pre |-> cache, ret |-> None]
  /\ opLog' = opLog \o [i \in 1..Len(urls) |-> [name |-> "add", arg |-> urls[i]]]
  /\ UNCHANGED <<routerVars, healthApiVars, historyApiVars, registryVars, metricsVars>>

NextCache ==
  \/ \E url \in Ids : CacheAdd(url)
  \/ \E url \in Ids : CacheTouch(url)
  \/ \E url \in Ids : CacheEvict(url)
  \/ \E urls \in SeqsUpTo(Ids, 2) : CachePreload(urls)

SpecCache == Init /\ [][NextCache]_vars

\* ------------------------------------- the health tracker driven directly
\* health.mark_unhealthy(url)
HMark(url) ==
  /\ failures' = mark_unhealthy(failures, now, url)
  /\ lastFail' = [lastFail EXCEPT ![url] = now]
  /\ hOp' = [name |-> "mark_unhealthy", arg |-> url, pre |-> failures, at |-> now,
             ret |-> None, over |-> [hOp.over EXCEPT ![url] = failures[url]]]
  /\ UNCHANGED <<cache, now, history, session, pc, turnLocals>>
  /\ UNCHANGED <<cacheApiVars, historyApiVars, registryVars, metricsVars>>

\* health.is_healthy(url)
HQuery(url) ==
  /\ LET h == is_healthy(failures, now, url)
     IN  /\ failures' = h.failures
         /\ hOp' = [name |-> "is_healthy", arg |-> url, pre |-> failures, at |-> now,
                    ret |-> h.ok, over |-> hOp.over]
  /\ UNCHANGED <<cache, now, history, session, pc, turnLocals, lastFail>>
  /\ UNCHANGED <<cacheApiVars, historyApiVars, registryVars, metricsVars>>

\* health.filter_healthy(urls)
HFilter(urls) ==
  /\ LET h == filter_healthy(failures, now, urls)
     IN  /\ failures' = h.failures
         /\ hOp' = [name |-> "filter_healthy", arg |-> urls, pre |-> failures, at |-> now,
                    ret |-> h.urls, over |-> hOp.over]
  /\ UNCHANGED <<cache, now, history, session, pc, turnLocals, lastFail>>
  /\ UNCHANGED <<cacheApiVars, historyApiVars, registryVars, metricsVars>>

\* health.clear(url): the record is removed, and the failure it stood for no
\* longer counts as marked
HClear(url) ==
  /\ failures' = clear(failures, url)
  /\ lastFail' = [lastFail EXCEPT ![url] = NoRec]
  /\ hOp' = [name |-> "clear", arg |-> url, pre |-> failures, at |-> now, ret |-> None,
             over |-> [hOp.over EXCEPT ![url] = NoRec]]
  /\ UNCHANGED <<cache, now, history, session, pc, turnLocals>>
  /\ UNCHANGED <<cacheApiVars, historyApiVars, registryVars, metricsVars>>

NextHealth ==
  \/ \E url \in Servers : HMark(url)
  \/ \E url \in Servers : HQuery(url)
  \/ \E urls \in DistinctSeqs(Servers, 2) : HFilter(urls)
  \/ \E url \in Servers : HClear(url)
  \/ Tick

SpecHealth == Init /\ [][NextHealth]_vars

\* ------------------------------------------- the history driven directly
\* the message lists a caller can hand to update: any roles in any order.
\* The `turn` field of a message holds its position in the list, standing
\* for its content, so that every message of a list is distinguishable.
Roles == {"system", "user", "assistant", "tool"}
MessageLists == {[i \in 1..Len(r) |-> Msg(r[i], i, 0)] : r \in SeqsUpTo(Roles, MaxMsgs)}

\* history.update(msgs)
HistUpdate(msgs) ==
  /\ history' = update(msgs)
  /\ histOp' = [name |-> "update", messages |-> msgs, max_turns |-> histOp.max_turns]
  /\ UNCHANGED <<cache, failures, now, session, pc, turnLocals, lastFail>>
  /\ UNCHANGED <<cacheApiVars, healthApiVars, registryVars, metricsVars>>

\* history.append_user(content): appended in place, not trimmed
HistAppendUser ==
  /\ Len(history) < MaxMsgs
  /\ history' = append_user(history, 0)
  /\ histOp' = [name |-> "append_user", messages |-> <<>>, max_turns |-> histOp.max_turns]
  /\ UNCHANGED <<cache, failures, now, session, pc, turnLocals, lastFail>>
  /\ UNCHANGED <<cacheApiVars, healthApiVars, registryVars, metricsVars>>

NextHistory ==
  \/ \E msgs \in MessageLists : HistUpdate(msgs)
  \/ HistAppendUser

SpecHistory == Init /\ [][NextHistory]_vars

\* ------------------------------- histories of any max_turns, driven directly
\* the max_turns a caller can construct a history with: an int, not validated
TrimTurns == -1..MaxTrimTurns

\* ConversationHistory(max_turns)
HistConstruct(max_turns) ==
  /\ history' = <<>>
  /\ histOp' = [name |-> "construct", messages |-> <<>>, max_turns |-> max_turns]
  /\ UNCHANGED <<cache, failures, now, session, pc, turnLocals, lastFail>>
  /\ UNCHANGED <<cacheApiVars, healthApiVars, registryVars, metricsVars>>

\* history.update(msgs) on the history constructed last
HistUpdateWith(msgs) ==
  /\ histOp.name # "none"
  /\ history' = trim_with(msgs, histOp.max_turns)
  /\ histOp' = [name |-> "update", messages |-> msgs, max_turns |-> histOp.max_turns]
  /\ UNCHANGED <<cache, failures, now, session, pc, turnLocals, lastFail>>
  /\ UNCHANGED <<cacheApiVars, healthApiVars, registryVars, metricsVars>>

NextTrim ==
  \/ \E max_turns \in TrimTurns : HistConstruct(max_turns)
  \/ \E msgs \in MessageLists : HistUpdateWith(msgs)

SpecTrim == Init /\ [][NextTrim]_vars

\* ------------------------------------------ the registry driven directly
\* the registries a ToolRegistry can be constructed with
Registries == {SubSeq(Registry, 1, n) : n \in 0..Len(Registry)}

\* ToolRegistry(registry, provider)
RegConstruct(reg) ==
  /\ registry_cache' = <<>>
  /\ searchOp' = [searchOp EXCEPT !.op = "construct", !.registry = reg, !.embeds = <<>>,
                                   !.count = 0]
  /\ UNCHANGED <<cache, routerVars, cacheApiVars, healthApiVars, historyApiVars, metricsVars>>

\* registry.cache_embeddings(): an empty registry returns 0 before _cache
\* is assigned
RegCacheEmbeddings ==
  /\ registry_cache' = IF searchOp.registry = <<>> THEN registry_cache
                       ELSE cache_embeddings(searchOp.registry)
  /\ searchOp' = [searchOp EXCEPT !.op = "cache_embeddings",
                                   !.embeds = cache_embeddings_embeds(searchOp.registry),
                                   !.count = IF searchOp.registry = <<>> THEN 0
                                             ELSE Len(registry_cache')]
  /\ UNCHANGED <<cache, routerVars, cacheApiVars, healthApiVars, historyApiVars, metricsVars>>

\* registry.search(queries): the embedding provider gives each query a
\* vector, that is, a similarity with every registry entry
RegSearch(sims) ==
  /\ searchOp.calls < MaxSearches
  /\ searchOp' = [calls |-> searchOp.calls + 1, cache |-> registry_cache, sims |-> sims,
                  hits |-> search(registry_cache, sims),
                  op |-> "search", registry |-> searchOp.registry,
                  embeds |-> search_embeds(registry_cache, sims), count |-> searchOp.count]
  /\ UNCHANGED registry_cache
  /\ UNCHANGED <<cache, routerVars, cacheApiVars, healthApiVars, historyApiVars, metricsVars>>

NextRegistry ==
  \/ \E reg \in Registries : RegConstruct(reg)
  \/ RegCacheEmbeddings
  \/ \E sims \in SeqsUpTo([Servers -> ScoreValues], MaxQueries) : RegSearch(sims)

SpecRegistry == Init /\ [][NextRegistry]_vars

\* --------------------------------------- the usage metrics driven directly
\* what mOp holds after an operation that returns nothing and needs no record
PlainOp(name) ==
  [name |-> name, prev |-> "none", n |-> 0, session |-> {}, log |-> NoFile,
   ret |-> [raised |-> FALSE, value |-> <<>>]]

\* metrics.record_tool_use(url)
MRecord(url) ==
  /\ session' = record_tool_use(session, url)
  /\ mOp' = PlainOp("record_tool_use")
  /\ UNCHANGED logFile
  /\ UNCHANGED <<cache, failures, now, history, pc, turnLocals, lastFail>>
  /\ UNCHANGED <<cacheApiVars, healthApiVars, historyApiVars, registryVars>>

\* metrics.flush_session()
MFlush ==
  /\ session = {} \/ Len(logFile.lines) < MaxLines
  /\ LET f == flush_session(session, logFile, now)
     IN  /\ session' = f.session
         /\ logFile' = f.log
  /\ mOp' = [PlainOp("flush_session") EXCEPT
               !.prev = mOp.name, !.session = session, !.log = logFile]
  /\ UNCHANGED <<cache, failures, now, history, pc, turnLocals, lastFail>>
  /\ UNCHANGED <<cacheApiVars, healthApiVars, historyApiVars, registryVars>>

\* a line reaches the log from outside this UsageMetrics object
MForeignLine(line) ==
  /\ Len(logFile.lines) < MaxLines
  /\ logFile' = [exists |-> TRUE, lines |-> Append(logFile.lines, line)]
  /\ mOp' = PlainOp("foreign")
  /\ UNCHANGED <<cache, failures, now, history, session, pc, turnLocals, lastFail>>
  /\ UNCHANGED <<cacheApiVars, healthApiVars, historyApiVars, registryVars>>

\* metrics.get_top_tools(n)
MTop(n) ==
  /\ mOp' = [PlainOp("get_top_tools") EXCEPT !.n = n, !.ret = get_top_tools(logFile, n)]
  /\ UNCHANGED logFile
  /\ UNCHANGED <<cache, failures, now, history, session, pc, turnLocals, lastFail>>
  /\ UNCHANGED <<cacheApiVars, healthApiVars, historyApiVars, registryVars>>

NextMetrics ==
  \/ \E url \in Servers : MRecord(url)
  \/ MFlush
  \/ \E line \in ForeignLines : MForeignLine(line)
  \/ \E n \in 0..MaxTop : MTop(n)

SpecMetrics == Init /\ [][NextMetrics]_vars

\* ------------------------------------------------- startup from the log
\* before this process starts: an earlier session flushes its usage, or a
\* foreign line reaches the log
PriorLine(line) ==
  /\ pc = "new"
  /\ Len(logFile.lines) < MaxLines
  /\ logFile' = [exists |-> TRUE, lines |-> Append(logFile.lines, line)]
  /\ UNCHANGED mOp
  /\ UNCHANGED <<cache, routerVars, cacheApiVars, healthApiVars, historyApiVars, registryVars>>

\* SmartRouter.initialize with the ranking read from the log
InitializeFromLog ==
  /\ ~get_top_tools(logFile, PreloadCount).raised
  /\ Initialize(get_top_tools(logFile, PreloadCount).value)

\* SmartRouter.initialize when get_top_tools raises: the embeddings are
\* cached, the exception leaves initialize and nothing is preloaded
InitializeRaise ==
  /\ pc = "new"
  /\ get_top_tools(logFile, PreloadCount).raised
  /\ registry_cache' = cache_embeddings(Registry)
  /\ pc' = "init_failed"
  /\ UNCHANGED <<cache, failures, now, history, session, turnLocals, lastFail>>
  /\ UNCHANGED <<cacheApiVars, healthApiVars, historyApiVars, searchOp, metricsVars>>

NextStartup ==
  \/ \E line \in FlushedLines \cup ForeignLines : PriorLine(line)
  \/ InitializeFromLog
  \/ InitializeRaise

SpecStartup == Init /\ [][NextStartup]_vars


\* ================================================================ claims

\* ------------------------------------------------------------------- C1
\* C1: after any sequence of add, touch, evict and preload calls the cache
\* holds at most CacheMax identifiers and get_urls() holds none twice.
C1_Theorem == Len(get_urls(cache)) <= CacheMax /\ NoDup(get_urls(cache))

\* a preload on a full cache that brought in an identifier that was absent
C1_Witness ==
  /\ lastOp.name = "preload"
  /\ Len(lastOp.pre) = CacheMax
  /\ \E i \in 1..Len(lastOp.arg) : ~Contains(lastOp.pre, lastOp.arg[i])
  /\ Len(cache) = CacheMax

\* ------------------------------------------------------------------- C2
\* position in `log` of the most recent add or touch of url (0 if none)
LastUse(log, url) ==
  LET uses == {i \in 1..Len(log) : log[i].arg = url /\ log[i].name \in {"add", "touch"}}
  IN  IF uses = {} THEN 0 ELSE CHOOSE i \in uses : \A j \in uses : j <= i

\* C2: add(id) of an absent id on a full cache evicts and returns the member
\* whose most recent add or touch is the oldest, which is the head of
\* get_urls(); under capacity it returns none and removes nothing; C+1 adds of
\* distinct identifiers evict exactly the first-added one and leave len = C.
C2_Theorem ==
  /\ (lastOp.name = "add" /\ ~Contains(lastOp.pre, lastOp.arg)) =>
       LET before == SubSeq(opLog, 1, Len(opLog) - 1)
       IN  IF Len(lastOp.pre) >= CacheMax
             THEN /\ Contains(lastOp.pre, lastOp.ret)
                  /\ \A v \in Range(lastOp.pre) :
                       LastUse(before, lastOp.ret) <= LastUse(before, v)
                  /\ lastOp.ret = Head(get_urls(lastOp.pre))
                  /\ Range(cache) = (Range(lastOp.pre) \ {lastOp.ret}) \cup {lastOp.arg}
                  /\ Len(cache) = CacheMax
             ELSE /\ lastOp.ret = None
                  /\ Range(cache) = Range(lastOp.pre) \cup {lastOp.arg}
  /\ (/\ lastOp.name = "add"
      /\ Len(opLog) = CacheMax + 1
      /\ \A i \in 1..Len(opLog) : opLog[i].name = "add"
      /\ NoDup([i \in 1..Len(opLog) |-> opLog[i].arg])) =>
       (lastOp.ret = opLog[1].arg /\ Len(cache) = CacheMax)

\* an add that evicted an identifier other than the first-added one, because a
\* touch had refreshed the first-added one
C2_Witness ==
  /\ lastOp.name = "add"
  /\ lastOp.ret # None
  /\ Len(opLog) >= 3
  /\ opLog[Len(opLog) - 1].name = "touch"
  /\ lastOp.ret # opLog[1].arg
  /\ Contains(cache, opLog[1].arg)

\* ------------------------------------------------------------------- C3
\* C3: after POST_RUN of handle_turn every server with an is_error invocation
\* in the final run's mcp_results is out of the cache and has a failure record;
\* every server with a non-error invocation is in the session set and, when
\* cached and without error invocation, is more recently used than every
\* cached server the run did not invoke.
C3_Theorem ==
  (pc = "done" /\ mode = "plain") =>
    LET mcp == result.mcp_results
    IN  /\ \A u \in Servers : HasError(mcp, u) =>
              (~Contains(cache, u) /\ failures[u] # NoRec)
        /\ \A u \in Servers : HasSuccess(mcp, u) =>
              /\ u \in session
              /\ (Contains(cache, u) /\ ~HasError(mcp, u)) =>
                   \A v \in Range(cache) :
                     ~Invoked(mcp, v) => IndexOf(cache, v) < IndexOf(cache, u)

\* the final run reported an error and then a success of the same server
C3_Witness ==
  /\ pc = "done"
  /\ mode = "plain"
  /\ postRan
  /\ Len(result.mcp_results) = 2
  /\ result.mcp_results[1].is_error
  /\ ~result.mcp_results[2].is_error
  /\ result.mcp_results[1].server_url = result.mcp_results[2].server_url

C5_Step ==
  /\ (pc = "primary" /\ pc' \notin {"primary", "aborted"}) =>
       /\ (pc' = "expanded") <=> (newly_discovered # <<>>)
       /\ (Len(runArgs') = 2) <=> (newly_discovered # <<>>)
  /\ (pc = "primary" /\ mode = "plain" /\ pc' \notin {"primary", "aborted", "expanded"}) =>
       (pc' = "done" /\ postRan' /\ Len(runArgs') = 1)
  /\ (pc = "expanded" /\ mode = "plain" /\ pc' \notin {"expanded", "aborted"}) =>
       (pc' = "done" /\ postRan' /\ Len(runArgs') = 2)
  /\ (pc = "expanded" /\ pc' = "expanded") => runArgs' = runArgs

\* C5: a turn makes at most two executor invocations; the second happens
\* exactly when the discovery set is non-empty as PRIMARY_RUN returns;
\* discovery during EXPANDED_RUN causes no third one; a final run of
\* handle_turn that returns is followed by POST_RUN and DONE.
C5_Theorem == [](Len(runArgs) <= 2) /\ [][C5_Step]_vars

\* a turn of handle_turn finished after an expanded run that discovered again
C5_Witness ==
  /\ pc = "done"
  /\ mode = "plain"
  /\ postRan
  /\ Len(runArgs) = 2
  /\ discInRun > 0

\* ------------------------------------------------------------------- C6
\* C6: the second executor invocation gets the message sequence the first one
\* got (pre-turn history plus the new user message) and the active list
\* recomputed from the cache as the probe's discovery calls left it, filtered
\* by health.
C6_Theorem ==
  [][(pc = "primary" /\ pc' = "expanded") =>
       /\ Len(runArgs') = 2
       /\ runArgs'[2].messages = runArgs'[1].messages
       /\ runArgs'[1].messages = Append(pre.history, Msg("user", turn, 0))
       /\ runArgs'[2].mcp_servers =
            SelectSeq(get_urls(cache),
                      LAMBDA u : failures[u] = NoRec \/ now - failures[u] >= Cooldown)
       /\ \A u \in Range(newly_discovered) :
            Contains(cache, u) => Contains(runArgs'[2].mcp_servers, u)]_vars

\* the expanded run is offered a discovered server, and a server the probe was
\* offered has been evicted by discovery
C6_Witness ==
  /\ pc = "expanded"
  /\ Len(runArgs) = 2
  /\ \E u \in Range(newly_discovered) : Contains(runArgs[2].mcp_servers, u)
  /\ \E u \in Range(runArgs[1].mcp_servers) : ~Contains(runArgs[2].mcp_servers, u)

\* ------------------------------------------------------------------- C7
\* C7: when EXPANDED_RUN occurred, the history after the turn holds no message
\* produced by the probe run.
C7_Claim ==
  (pc = "done" /\ Len(runArgs) = 2) =>
    \A i \in 1..Len(history) : ~(history[i].turn = turn /\ history[i].run = 1)

\* ------------------------------------------------------------------- C8
\* C8: after a turn aborted by a failing executor run the history equals the
\* history before the turn.
C8_Claim == (pc = "aborted") => history = pre.history

\* ------------------------------------------------------------------- C9
\* the cache after add(url) for each url of `urls`, in order
RECURSIVE ReplayAdds(_, _)
ReplayAdds(c, urls) ==
  IF urls = <<>> THEN c ELSE ReplayAdds(add(c, Head(urls)).cache, Tail(urls))

\* C9 as stated: after a turn aborted by a failing run the session set and the
\* failure records are exactly those before the turn, and the cache differs
\* only by the adds of the turn's discovery calls.
C9_Claim ==
  (pc = "aborted") =>
    /\ session = pre.session
    /\ failures = pre.failures
    /\ cache = ReplayAdds(pre.cache, newly_discovered)

\* C9 as amended: after a turn aborted by a failing run the session set is
\* the one before the turn, no failure record was added or changed (a record
\* whose cooldown has elapsed may have been purged by a health check), and the
\* cache differs only by the adds of the turn's discovery calls.
C9_Theorem ==
  (pc = "aborted") =>
    /\ session = pre.session
    /\ \A u \in Servers :
         \/ failures[u] = pre.failures[u]
         \/ /\ failures[u] = NoRec
            /\ pre.failures[u] # NoRec
            /\ now - pre.failures[u] >= Cooldown
    /\ cache = ReplayAdds(pre.cache, newly_discovered)

\* the expanded run failed after discovery had added a server whose expired
\* failure record was purged
C9_Witness ==
  /\ pc = "aborted"
  /\ Len(runArgs) = 2
  /\ failures # pre.failures
  /\ cache # pre.cache

\* ------------------------------------------------------------------ C10
\* C10: when the search fails inside discover_tools, the executor is given the
\* "no tools found" message and the turn's discovery set is cleared.
C10_Claim ==
  searchFailed => (discReturn = "no_match" /\ newly_discovered = <<>>)


\* ------------------------------------------------------------------ C11
\* C11: after a fully consumed handle_turn_stream the cache, the health
\* tracker and the session set are as handle_turn leaves them: every server
\* with an is_error invocation in the final run is out of the cache and has a
\* failure record, and every server with a non-error invocation is in the
\* session set and, when cached and without error invocation, more recently
\* used than every cached server the final run did not invoke.
C11_Claim ==
  (pc = "done" /\ mode = "stream") =>
    /\ \A u \in Servers : HasError(finalMcp, u) =>
          (~Contains(cache, u) /\ failures[u] # NoRec)
    /\ \A u \in Servers : HasSuccess(finalMcp, u) =>
          /\ u \in session
          /\ (Contains(cache, u) /\ ~HasError(finalMcp, u)) =>
               \A v \in Range(cache) :
                 ~Invoked(finalMcp, v) => IndexOf(cache, v) < IndexOf(cache, u)

\* ------------------------------------------------------------------ C12
\* C12: with a cooldown T > 0, an is_healthy(x) query made less than T after
\* the last mark_unhealthy(x) returns false and keeps the record (so the
\* query made immediately after the mark is false); a query made T or more
\* after it returns true and leaves no record, the first such query being
\* the one that removes it; a query for a server never marked returns true.
C12_Theorem ==
  /\ Cooldown > 0
  /\ hOp.name = "is_healthy" =>
       LET x == hOp.arg
           elapsed == hOp.at - lastFail[x]
       IN  IF lastFail[x] = NoRec
             THEN hOp.ret = TRUE /\ failures[x] = NoRec
             ELSE IF elapsed < Cooldown
               THEN hOp.ret = FALSE /\ failures[x] = lastFail[x]
               ELSE /\ hOp.ret = TRUE
                    /\ failures[x] = NoRec
                    /\ hOp.pre[x] \in {NoRec, lastFail[x]}

\* a query after the cooldown that found the record already removed by an
\* earlier query, and answered true again
C12_Witness ==
  /\ hOp.name = "is_healthy"
  /\ lastFail[hOp.arg] # NoRec
  /\ hOp.at - lastFail[hOp.arg] >= Cooldown
  /\ hOp.pre[hOp.arg] = NoRec
  /\ hOp.ret = TRUE

\* ------------------------------------------------------------------ C13
\* C13: for max_turns >= 1, after update(messages) the history holds at most
\* max_turns user messages; an input with at most max_turns user messages is
\* stored unchanged; otherwise the history is exactly the leading system
\* messages of the input followed by the suffix of the input that starts at
\* the user message preceded by excess = turn_count - max_turns user messages.
C13_Theorem ==
  /\ MaxHistoryTurns >= 1
  /\ histOp.name = "update" =>
       LET in == histOp.messages
           users == {i \in 1..Len(in) : in[i].role = "user"}
           n == Cardinality(users)
       IN  /\ Cardinality({i \in 1..Len(history) : history[i].role = "user"})
                <= MaxHistoryTurns
           /\ n <= MaxHistoryTurns => history = in
           /\ n > MaxHistoryTurns =>
                \E cut \in users, k \in 0..Len(in) :
                  /\ Cardinality({j \in users : j < cut}) = n - MaxHistoryTurns
                  /\ \A i \in 1..k : in[i].role = "system"
                  /\ k = Len(in) \/ in[k + 1].role # "system"
                  /\ history = SubSeq(in, 1, k) \o SubSeq(in, cut, Len(in))

\* with max_turns = 1: a system message and two user/assistant pairs were
\* given, the system message and the last pair are stored
C13_Witness ==
  /\ MaxHistoryTurns = 1
  /\ histOp.name = "update"
  /\ Len(histOp.messages) = 5
  /\ [i \in 1..5 |-> histOp.messages[i].role]
       = <<"system", "user", "assistant", "user", "assistant">>
  /\ history = <<histOp.messages[1], histOp.messages[4], histOp.messages[5]>>

\* ------------------------------------------------------------------ C14
\* C14: whenever update dropped messages, the first stored message after the
\* leading system messages is a user message, no stored message occurs
\* twice, every stored user message is followed by all the messages that
\* followed it in the input up to the next user message, and every stored
\* message that is neither a user message nor in the system prefix directly
\* follows the message it followed in the input.
C14_Theorem ==
  (histOp.name = "update" /\ history # histOp.messages) =>
    LET in == histOp.messages
        k == Len(system_prefix(history))
    IN  /\ k < Len(history)
        /\ history[k + 1].role = "user"
        /\ NoDup(history)
        /\ \A i \in 1..Len(history) : history[i].role = "user" =>
             LET p == history[i].turn
             IN  \A d \in 0..(Len(in) - p) :
                   (\A e \in 1..d : in[p + e].role # "user") =>
                     (i + d <= Len(history) /\ history[i + d] = in[p + d])
        /\ \A i \in (k + 1)..Len(history) : history[i].role # "user" =>
             (i - 1 > k /\ history[i - 1] = in[history[i].turn - 1])

\* a trim that dropped a turn holding a tool message and kept, behind a
\* system message, a turn holding one
C14_Witness ==
  /\ histOp.name = "update"
  /\ Len(histOp.messages) = 5
  /\ [i \in 1..5 |-> histOp.messages[i].role]
       = <<"system", "user", "tool", "user", "tool">>
  /\ Len(history) = 3
  /\ history[3] = histOp.messages[5]

\* ------------------------------------------------------------------ C15
\* the best similarity any entry cached at the last search has with a query
BestOf(sim) ==
  CHOOSE b \in {sim[e.url] : e \in Range(searchOp.cache)} :
    \A e \in Range(searchOp.cache) : sim[e.url] <= b
\* the entry u clears both tiers for a query
Qualifies(sim, u) ==
  sim[u] >= SimilarityThreshold /\ sim[u] * Tenths >= RelativeScoreCutoff * BestOf(sim)
\* the queries of the last search for which u clears both tiers
Contributors(u) == {q \in 1..Len(searchOp.sims) : Qualifies(searchOp.sims[q], u)}
\* the earliest of them
Contributor(u) == CHOOSE q \in Contributors(u) : \A r \in Contributors(u) : q <= r

\* C15 as stated: every returned hit comes from a query for which its entry
\* reaches the absolute threshold, and the score the hit carries is at or
\* above the threshold and at or above relative_score_cutoff times the best
\* similarity any cached entry has with that query.
C15_Claim ==
  \A i \in 1..Len(searchOp.hits) :
    LET h == searchOp.hits[i]
    IN  /\ Contributors(h.url) # {}
        /\ h.score >= SimilarityThreshold
        /\ h.score * Tenths >= RelativeScoreCutoff * BestOf(searchOp.sims[Contributor(h.url)])

\* C15: every returned hit comes from a query for which the unrounded
\* similarity of its entry is at or above the threshold and at or above
\* relative_score_cutoff times the best similarity of that query; the score
\* returned is that similarity rounded to four decimals, which is within
\* 0.00005 of it and still at or above the threshold; a query for which no
\* entry reaches the threshold contributes no hit.
C15_Theorem ==
  \A i \in 1..Len(searchOp.hits) :
    LET h == searchOp.hits[i]
    IN  /\ Contributors(h.url) # {}
        /\ LET sim == searchOp.sims[Contributor(h.url)]
           IN  /\ sim[h.url] >= SimilarityThreshold
               /\ sim[h.url] * Tenths >= RelativeScoreCutoff * BestOf(sim)
               /\ h.score - sim[h.url] \in -5..5
               /\ h.score % 10 = 0
               /\ h.score >= SimilarityThreshold

\* one query: an entry returned with a rounded score below the cutoff its
\* similarity cleared, while another entry above the threshold was cut
C15_Witness ==
  /\ Len(searchOp.sims) = 1
  /\ Len(searchOp.hits) = 2
  /\ \E u \in Servers :
       /\ searchOp.sims[1][u] >= SimilarityThreshold
       /\ ~is_matched(searchOp.hits, u)
  /\ \E i \in 1..2 :
       searchOp.hits[i].score * Tenths < RelativeScoreCutoff * BestOf(searchOp.sims[1])

\* ------------------------------------------------------------------ C16
\* C16: the hits of a search hold no identifier twice, and the score of a
\* hit is the (rounded) similarity its entry has with the earliest query of
\* the call for which the entry clears both tiers, whatever later queries
\* give it.
C16_Theorem ==
  /\ \A i, j \in 1..Len(searchOp.hits) :
       searchOp.hits[i].url = searchOp.hits[j].url => i = j
  /\ \A i \in 1..Len(searchOp.hits) :
       LET h == searchOp.hits[i]
       IN  /\ Contributors(h.url) # {}
           /\ h.score = round4(searchOp.sims[Contributor(h.url)][h.url])
  /\ \A u \in {e.url : e \in Range(searchOp.cache)} :
       Contributors(u) # {} => is_matched(searchOp.hits, u)

\* two queries match the same entry, the second with the higher similarity;
\* the hit carries the first one's
C16_Witness ==
  /\ Len(searchOp.sims) = 2
  /\ \E i \in 1..Len(searchOp.hits) :
       LET h == searchOp.hits[i]
       IN  /\ Contributors(h.url) = {1, 2}
           /\ searchOp.sims[1][h.url] < searchOp.sims[2][h.url]
           /\ h.score = round4(searchOp.sims[1][h.url])
           /\ h.score < round4(searchOp.sims[2][h.url])

\* ------------------------------------------------------------------ C17
\* C17: flush_session leaves the log as it was when the session set is
\* empty; otherwise it appends exactly one entry whose tools_used lists the
\* session set in sorted order; in both cases the session set is empty
\* afterwards, so a flush_session that follows another one appends nothing.
C17_Theorem ==
  mOp.name = "flush_session" =>
    /\ session = {}
    /\ mOp.session = {} => logFile = mOp.log
    /\ mOp.session # {} =>
         /\ logFile.exists
         /\ Len(logFile.lines) = Len(mOp.log.lines) + 1
         /\ SubSeq(logFile.lines, 1, Len(mOp.log.lines)) = mOp.log.lines
         /\ LET e == logFile.lines[Len(logFile.lines)]
            IN  /\ e.kind = "entry"
                /\ Range(e.tools_used) = mOp.session
                /\ \A i, j \in 1..Len(e.tools_used) :
                     i < j => IndexOf(IdOrder, e.tools_used[i]) < IndexOf(IdOrder, e.tools_used[j])
    /\ mOp.prev = "flush_session" => logFile = mOp.log

\* a flush_session directly after a flush_session that wrote an entry: the
\* log still ends with that entry
C17_Witness ==
  /\ mOp.name = "flush_session"
  /\ mOp.prev = "flush_session"
  /\ Len(logFile.lines) >= 1
  /\ logFile.lines[Len(logFile.lines)] \in FlushedLines
  /\ logFile = mOp.log

\* ------------------------------------------------------------------ C18
\* the number of occurrences of u in the tools_used lists of the entries
Occurrences(u) ==
  Cardinality({p \in (1..Len(logFile.lines)) \X (1..Cardinality(Ids)) :
                 /\ logFile.lines[p[1]].kind = "entry"
                 /\ p[2] <= Len(logFile.lines[p[1]].tools_used)
                 /\ logFile.lines[p[1]].tools_used[p[2]] = u})
\* u is met before v when the entries are read in order
SeenBefore(u, v) ==
  \E l \in 1..Len(logFile.lines) : \E i \in 1..Len(logFile.lines[l].tools_used) :
    /\ logFile.lines[l].kind = "entry"
    /\ logFile.lines[l].tools_used[i] = u
    /\ \A m \in 1..l : \A j \in 1..Len(logFile.lines[m].tools_used) :
         (logFile.lines[m].kind = "entry" /\ logFile.lines[m].tools_used[j] = v)
           => (m = l /\ i < j)
\* u ranks before v
RanksBefore(u, v) ==
  \/ Occurrences(u) > Occurrences(v)
  \/ Occurrences(u) = Occurrences(v) /\ SeenBefore(u, v)

\* C18: get_top_tools(n) returns a list of at most n identifiers: the (up to
\* n) identifiers that occur most often in the tools_used lists of the
\* log's entries, in descending order of occurrences, identifiers of equal
\* count in the order they were first seen; the empty list without a log.
C18_Claim ==
  mOp.name = "get_top_tools" =>
    /\ ~mOp.ret.raised
    /\ LET top == mOp.ret.value
           used == {u \in Ids : Occurrences(u) > 0}
       IN  /\ Len(top) <= mOp.n
           /\ Range(top) \subseteq used
           /\ Len(top) = IF Cardinality(used) < mOp.n THEN Cardinality(used) ELSE mOp.n
           /\ \A i, j \in 1..Len(top) : i < j => RanksBefore(top[i], top[j])
           /\ \A u \in used \ Range(top) : \A i \in 1..Len(top) : RanksBefore(top[i], u)
           /\ ~logFile.exists => top = <<>>

\* ------------------------------------------------------------------ C19
\* the log without the lines that are no well-formed usage entry
WellFormed(log) ==
  [exists |-> log.exists, lines |-> SelectSeq(log.lines, LAMBDA l : l.kind = "entry")]

\* C19: get_top_tools never raises because of what a line holds, and returns
\* what it returns for the log with every line that is not a well-formed
\* usage entry removed.
C19_Claim ==
  mOp.name = "get_top_tools" =>
    /\ ~mOp.ret.raised
    /\ mOp.ret.value = get_top_tools(WellFormed(logFile), mOp.n).value

\* ------------------------------------------------------------------ C20
\* the servers initialize preloads: the log's top PreloadCount that are
\* registered, most frequently used first
Preloaded ==
  SelectSeq(get_top_tools(logFile, PreloadCount).value, LAMBDA u : u \in Range(Registry))

\* C20: after initialize preloaded servers from the log's ranking, the most
\* frequently used of them is the most recently used entry of the cache,
\* get_urls() lists the cached ones least preferred first, and the servers
\* that remain cached are the most frequently used ones, as many as fit.
C20_Claim ==
  (pc = "idle" /\ Preloaded # <<>>) =>
    LET urls == get_urls(cache)
        kept == IF Len(Preloaded) < CacheMax THEN Len(Preloaded) ELSE CacheMax
    IN  /\ urls # <<>>
        /\ urls[Len(urls)] = Preloaded[1]
        /\ \A i, j \in 1..Len(urls) :
             i < j => IndexOf(Preloaded, urls[i]) > IndexOf(Preloaded, urls[j])
        /\ Range(urls) = {Preloaded[i] : i \in 1..kept}

\* ------------------------------------------------------------------ C21
\* C21: touch(id) of an id that is not cached leaves get_urls() as it was;
\* touch(id) of a cached id makes id the last element of get_urls() and
\* leaves the membership and the relative order of the other identifiers
\* unchanged.
C21_Theorem ==
  lastOp.name = "touch" =>
    IF ~Contains(lastOp.pre, lastOp.arg)
      THEN get_urls(cache) = get_urls(lastOp.pre)
      ELSE /\ get_urls(cache)[Len(get_urls(cache))] = lastOp.arg
           /\ Range(cache) = Range(lastOp.pre)
           /\ Len(cache) = Len(lastOp.pre)
           /\ Without(cache, lastOp.arg) = Without(lastOp.pre, lastOp.arg)

\* a touch of the least recently used entry of a full cache
C21_Witness ==
  /\ lastOp.name = "touch"
  /\ Len(lastOp.pre) = CacheMax
  /\ CacheMax >= 2
  /\ Head(lastOp.pre) = lastOp.arg
  /\ cache # lastOp.pre

\* ------------------------------------------------------------------ C22
\* C22: add(id) of an id already cached returns none, removes nothing even
\* from a full cache, keeps the membership and the relative order of the
\* other identifiers and makes id the most recently used entry; an add(id)
\* that directly follows an add(id) changes nothing.
C22_Theorem ==
  /\ (lastOp.name = "add" /\ Contains(lastOp.pre, lastOp.arg)) =>
       /\ lastOp.ret = None
       /\ Range(cache) = Range(lastOp.pre)
       /\ Len(cache) = Len(lastOp.pre)
       /\ cache[Len(cache)] = lastOp.arg
       /\ Without(cache, lastOp.arg) = Without(lastOp.pre, lastOp.arg)
  /\ (/\ lastOp.name = "add"
      /\ Len(opLog) >= 2
      /\ opLog[Len(opLog) - 1] = [name |-> "add", arg |-> lastOp.arg]) =>
       (cache = lastOp.pre /\ lastOp.ret = None)

\* an add of the least recently used entry of a full cache
C22_Witness ==
  /\ lastOp.name = "add"
  /\ Len(lastOp.pre) = CacheMax
  /\ CacheMax >= 2
  /\ Head(lastOp.pre) = lastOp.arg
  /\ cache[Len(cache)] = lastOp.arg

\* ------------------------------------------------------------------ C23
\* url has no failure record, or one whose cooldown has elapsed
HealthyNow(url) == failures[url] = NoRec \/ now - failures[url] >= Cooldown

\* C23: a discovery call appends to the discovery set, and adds to the
\* cache, exactly the search hits that are healthy at that moment and not
\* yet in the discovery set, in the order of the hits; a hit with an
\* unexpired failure record enters neither; and the discovery set never
\* holds an identifier twice.
C23_Step ==
  (discCalls' = discCalls + 1 /\ ~searchFailed') =>
    LET added == SelectSeq(hits', LAMBDA u : HealthyNow(u) /\ ~Contains(newly_discovered, u))
    IN  /\ newly_discovered' = newly_discovered \o added
        /\ cache' = ReplayAdds(cache, added)
        /\ \A u \in Range(hits') : ~HealthyNow(u) =>
             /\ ~Contains(newly_discovered', u)
             /\ ~Contains(cache', u)
C23_Theorem == [](NoDup(newly_discovered)) /\ [][C23_Step]_vars

\* the second discovery call of a turn had two hits: one already in the
\* discovery set, one kept out by its failure record
C23_Witness ==
  /\ discCalls = 2
  /\ Len(hits) = 2
  /\ \E u \in Range(hits) : failures[u] # NoRec /\ ~Contains(newly_discovered, u)
  /\ \E u \in Range(hits) : Contains(newly_discovered, u)
  /\ Len(newly_discovered) = 1

\* ------------------------------------------------------------------ C24
\* C24: in handle_turn_stream, when the probe returns with an empty
\* discovery set no second executor invocation is made and the caller is
\* handed one chunk, the probe's final_output; a streaming turn that made a
\* single executor invocation and ended, or was abandoned, gave the caller
\* exactly that chunk.
C24_Step ==
  (pc = "primary" /\ mode = "stream" /\ newly_discovered = <<>>
     /\ pc' \notin {"primary", "aborted"}) =>
    /\ pc' = "yield_final"
    /\ runArgs' = runArgs
    /\ Len(runArgs') = 1
    /\ yielded' = <<[turn |-> turn, run |-> 1]>>
C24_Theorem ==
  /\ [][C24_Step]_vars
  /\ []((mode = "stream" /\ pc \in {"yield_final", "done", "abandoned"} /\ Len(runArgs) = 1) =>
          yielded = <<[turn |-> turn, run |-> 1]>>)
  /\ []((mode = "stream" /\ pc = "done" /\ newly_discovered = <<>>) => Len(runArgs) = 1)

\* a streaming turn ended after a probe whose discovery call found nothing
\* to add
C24_Witness ==
  /\ mode = "stream"
  /\ pc = "done"
  /\ discCalls = 1
  /\ newly_discovered = <<>>
  /\ Len(runArgs) = 1
  /\ Len(yielded) = 1
  /\ postRan

\* ------------------------------------------------------------------ C25
\* C25: mark_unhealthy(id) sets the record of id to the current time whether
\* or not id had a record, and changes no other record; when it replaced a
\* record, is_healthy(id) is false for every query made less than T after
\* the later failure, also when T has elapsed since the earlier one.
C25_Theorem ==
  /\ hOp.name = "mark_unhealthy" =>
       /\ failures[hOp.arg] = hOp.at
       /\ \A u \in Servers \ {hOp.arg} : failures[u] = hOp.pre[u]
  /\ (/\ hOp.name = "is_healthy"
      /\ hOp.over[hOp.arg] # NoRec
      /\ lastFail[hOp.arg] # NoRec
      /\ hOp.at < lastFail[hOp.arg] + Cooldown) =>
       (hOp.ret = FALSE /\ failures[hOp.arg] = lastFail[hOp.arg])

\* failures at t1 < t2, then a query at or after t1 + T and before t2 + T
C25_Witness ==
  /\ hOp.name = "is_healthy"
  /\ hOp.over[hOp.arg] # NoRec
  /\ hOp.over[hOp.arg] < lastFail[hOp.arg]
  /\ hOp.over[hOp.arg] + Cooldown <= hOp.at
  /\ hOp.at < lastFail[hOp.arg] + Cooldown
  /\ hOp.ret = FALSE

\* ------------------------------------------------------------------ C26
\* C26: the failure record of x changes only through mark_unhealthy(x), or
\* is removed by is_healthy(x) or a filter_healthy over a list holding x
\* once the cooldown has elapsed, or by clear(x); the clock advancing and
\* operations on other identifiers leave it as it is, and an is_healthy
\* that answers false changes no record.
C26_Step ==
  /\ \A x \in Servers : (failures[x] # NoRec /\ failures'[x] # failures[x]) =>
       \/ hOp'.name = "mark_unhealthy" /\ hOp'.arg = x /\ failures'[x] = now
       \/ /\ hOp'.name = "is_healthy"
          /\ hOp'.arg = x
          /\ now - failures[x] >= Cooldown
          /\ failures'[x] = NoRec
       \/ /\ hOp'.name = "filter_healthy"
          /\ Contains(hOp'.arg, x)
          /\ now - failures[x] >= Cooldown
          /\ failures'[x] = NoRec
       \/ hOp'.name = "clear" /\ hOp'.arg = x /\ failures'[x] = NoRec
  /\ now' # now => failures' = failures
  /\ (hOp' # hOp /\ hOp'.name = "is_healthy" /\ hOp'.ret = FALSE) => failures' = failures
C26_Theorem == [][C26_Step]_vars

\* an is_healthy(y) left in place the record of another identifier whose
\* cooldown had elapsed
C26_Witness ==
  /\ hOp.name = "is_healthy"
  /\ \E x \in Servers \ {hOp.arg} :
       /\ failures[x] # NoRec
       /\ hOp.at - failures[x] >= Cooldown
       /\ hOp.pre[x] = failures[x]

\* ------------------------------------------------------------------ C27
\* C27: update(messages) on an input with at least one user message leaves
\* at least one user message in the history, whatever max_turns is; and
\* when the number of user messages is not greater than excess (max_turns
\* <= 0) the trim is skipped and the whole sequence is kept.
C27_Theorem ==
  histOp.name = "update" =>
    LET in == histOp.messages
        n == turn_count(in)
        excess == n - histOp.max_turns
    IN  /\ n >= 1 => turn_count(history) >= 1
        /\ histOp.max_turns <= 0 => history = in
        /\ (n > histOp.max_turns /\ n <= excess) => (histOp.max_turns <= 0 /\ history = in)

\* a history constructed with max_turns = 0 was given a system message and
\* two turns, and kept all of it
C27_Witness ==
  /\ histOp.name = "update"
  /\ histOp.max_turns = 0
  /\ Len(histOp.messages) = 5
  /\ histOp.messages[1].role = "system"
  /\ turn_count(histOp.messages) = 2
  /\ history = histOp.messages

\* ------------------------------------------------------------------ C28
\* C28: cache_embeddings on a non-empty registry and search with at least
\* one query and a non-empty embedding cache each call the embedding
\* provider exactly once, with the whole batch; cache_embeddings on an empty
\* registry returns 0, and search with no queries or an empty cache returns
\* the empty list, without a provider call.
C28_Theorem ==
  /\ searchOp.op = "cache_embeddings" =>
       IF searchOp.registry = <<>>
       THEN searchOp.embeds = <<>> /\ searchOp.count = 0
       ELSE /\ searchOp.embeds = <<Len(searchOp.registry)>>
            /\ searchOp.count = Len(searchOp.registry)
  /\ searchOp.op = "search" =>
       IF searchOp.sims = <<>> \/ searchOp.cache = <<>>
       THEN searchOp.embeds = <<>> /\ searchOp.hits = <<>>
       ELSE searchOp.embeds = <<Len(searchOp.sims)>>

\* a search with two queries over a cache of three entries made one call
C28_Witness ==
  /\ searchOp.op = "search"
  /\ Len(searchOp.sims) = 2
  /\ Len(searchOp.cache) = 3
  /\ Len(searchOp.embeds) = 1

\* ------------------------------------------------------------------ C29
\* C29 as stated: a discovery call whose healthy hits were all in the
\* Connection Cache already, and in the active list the PRIMARY_RUN was
\* given, leaves the discovery set empty, so that the turn has no
\* EXPANDED_RUN.
C29_Step ==
  (/\ discCalls' = discCalls + 1
   /\ ~searchFailed'
   /\ newly_discovered = <<>>
   /\ \A u \in Range(hits') :
        HealthyNow(u) => (Contains(cache, u) /\ Contains(runArgs[1].mcp_servers, u))) =>
    newly_discovered' = <<>>
C29_Claim == [][C29_Step]_vars

\* ------------------------------------------------------------------ C30
\* C30: the discovery set is empty when a turn starts and belongs to that
\* turn alone: whatever earlier turns discovered, a turn in which no
\* discovery call has been made has an empty discovery set and a single
\* executor invocation.
C30_Step == turn' # turn => (newly_discovered' = <<>> /\ Len(runArgs') = 1)
C30_Theorem ==
  /\ [][C30_Step]_vars
  /\ [](discCalls = 0 => newly_discovered = <<>>)
  /\ []((discCalls = 0 /\ turn >= 1) => Len(runArgs) = 1)

\* the second turn ended without a discovery call, after a first turn that
\* had an EXPANDED_RUN whose discovered server is still in the cache
C30_Witness ==
  /\ pc = "done"
  /\ turn = 2
  /\ discCalls = 0
  /\ Len(runArgs) = 1
  /\ cache # <<>>
  /\ \E i \in 1..Len(pre.history) : pre.history[i].run = 2

\* ------------------------------------------------------------------ C31
\* C31: at every turn boundary no identifier in the Connection Cache has a
\* failure record: an identifier enters the cache only by the preload of
\* initialize, when no record exists, or by a discovery call that found it
\* healthy; an identifier that gets a failure record is out of the cache
\* in the same step; so filter_healthy at START returns the cached list
\* whole and changes no record.
C31_Step ==
  /\ \A u \in Servers : (~Contains(cache, u) /\ Contains(cache', u)) =>
       \/ pc = "new" /\ failures = [x \in Servers |-> NoRec]
       \/ /\ discCalls' = discCalls + 1
          /\ Contains(hits', u)
          /\ HealthyNow(u)
          /\ failures'[u] = NoRec
  /\ \A u \in Servers : (failures'[u] # NoRec /\ failures'[u] # failures[u]) =>
       (postRan' /\ HasError(finalMcp', u) /\ ~Contains(cache', u))
  /\ turn' # turn =>
       /\ active_urls' = get_urls(cache)
       /\ failures' = failures
C31_Theorem ==
  /\ []((pc \in {"idle", "done", "aborted", "abandoned"}) =>
          \A u \in Range(cache) : failures[u] = NoRec)
  /\ [][C31_Step]_vars

\* a turn ended whose POST_RUN marked a server of the pre-turn cache
\* unhealthy and evicted it, other servers staying cached
C31_Witness ==
  /\ pc = "done"
  /\ postRan
  /\ cache # <<>>
  /\ \E u \in Servers :
       /\ Contains(pre.cache, u)
       /\ HasError(finalMcp, u)
       /\ failures[u] # NoRec
       /\ ~Contains(cache, u)

\* ------------------------------------------------------------------ C32
\* C32: with capacity at least 1, the server list the EXPANDED_RUN is given
\* is non-empty and holds the identifier added last to the discovery set
\* during PRIMARY_RUN; identifiers discovered before it and servers active
\* in PRIMARY_RUN need not be in it, later discovery adds may have evicted
\* them.
C32_Step ==
  (CacheMax >= 1 /\ Len(runArgs) = 1 /\ Len(runArgs') = 2) =>
    /\ newly_discovered # <<>>
    /\ runArgs'[2].mcp_servers # <<>>
    /\ Contains(runArgs'[2].mcp_servers, newly_discovered[Len(newly_discovered)])
    /\ runArgs'[2].mcp_servers = get_urls(cache)
    /\ active_urls' = runArgs'[2].mcp_servers
C32_Theorem ==
  /\ [][C32_Step]_vars
  /\ []((CacheMax >= 1 /\ pc = "expanded") =>
          (Len(runArgs) = 2 /\ runArgs[2].mcp_servers # <<>>))

\* an EXPANDED_RUN on a full cache: the server that was active in
\* PRIMARY_RUN was evicted by the discovery adds, the one discovered last
\* is in the list
C32_Witness ==
  /\ pc = "expanded"
  /\ discInRun = 0
  /\ Len(runArgs) = 2
  /\ Len(newly_discovered) = 2
  /\ runArgs[1].mcp_servers # <<>>
  /\ \E u \in Range(runArgs[1].mcp_servers) : ~Contains(runArgs[2].mcp_servers, u)
  /\ Contains(runArgs[2].mcp_servers, newly_discovered[2])

============================================================================
